---- MODULE Spec2Model ----
(***************************************************************************)
(* django-handy-helpers: the method/group permission mixins                *)
(* (djangohelpers/permissions.py) and the query-parameter validator        *)
(* InvalidLookupMixin (handyhelpers/mixins/viewset_mixins.py).             *)
(*                                                                         *)
(* Python strings that the code takes apart or builds (query keys, filter  *)
(* names, lookup expressions) are sequences of one-character strings, so   *)
(* that rstrip, split and format are computed.  Group names, HTTP methods  *)
(* and URLs are only compared, and are TLA+ strings.                       *)
(***************************************************************************)
EXTENDS Integers, Sequences, FiniteSets, TLC

VARIABLES
    view_class,        \* permissions: the mixin the view class is built from
    permission_dict,   \* permissions: the view's class attribute (or none)
    LOGIN_URL,         \* settings.LOGIN_URL
    request,           \* permissions: the request last dispatched
    permission,        \* permissions: what has_permission returned or raised
    response,          \* permissions: what dispatch returned or raised
    super_dispatched,  \* permissions: calls of super().dispatch for that request
    filtersets,        \* validator: the declared FilterSet classes
    viewset,           \* validator: class attributes of the viewset
    SKIP_SETTING,      \* settings.INVALID_LOOKUP_SKIP_LIST (or unset)
    GET,               \* validator: query keys of the request, in dict order
    lookup_response,   \* validator: what dispatch returned or raised
    lookup_super,      \* validator: calls of super().dispatch for that request
    fs_input,          \* flattening: the FilterSet class handed to the function
    fs_output,         \* flattening: what get_lookup_expression returned
    group_view,        \* group mixins: the view class and its permission_group_list
    test_call,         \* group mixins: the last call of test_func and its result
    page_views,        \* page views: the declared view classes
    class_dicts,       \* page views: the dict objects held as class attributes
    rendered           \* page views: the contexts rendered so far, oldest first

vars == <<view_class, permission_dict, LOGIN_URL, request, permission, response,
          super_dispatched, filtersets, viewset, SKIP_SETTING, GET,
          lookup_response, lookup_super, fs_input, fs_output, group_view,
          test_call, page_views, class_dicts, rendered>>

permVars == <<view_class, permission_dict, LOGIN_URL, request, permission, response,
              super_dispatched>>

lookupVars == <<viewset, SKIP_SETTING, GET, lookup_response, lookup_super>>

flatVars == <<fs_input, fs_output>>

groupVars == <<group_view, test_call>>

pageVars == <<page_views, class_dicts, rendered>>

(***************************************************************************)
(* Bounds                                                                  *)
(***************************************************************************)
MaxRequired == 2     \* longest required-group list of a permission_dict entry

Range(s) == {s[i] : i \in 1..Len(s)}

SeqsUpTo(S, n) == UNION {[1..k -> S] : k \in 0..n}

(***************************************************************************)
(* permissions.py                                                          *)
(***************************************************************************)
Methods == {"GET", "POST"}

Groups == {"site_operators", "site_admins"}

None == [tag |-> "None", items |-> <<>>]

List(items) == [tag |-> "list", items |-> items]

\* The values a permission_dict entry takes: a list of group names, or None.
Entries == {None} \cup {List(r) : r \in SeqsUpTo(Groups, MaxRequired)}

\* A view's permission_dict attribute: absent, or a dict over some methods.
PermissionDicts ==
    {[declared |-> FALSE, mapping |-> <<>>]} \cup
    {[declared |-> TRUE, mapping |-> d] :
        d \in UNION {[ms -> Entries] : ms \in SUBSET Methods}}

REDIRECT_FIELD_NAME == "next"

Requests ==
    [method : Methods, groups : SUBSET Groups, full_path : {"/items/", "/items/?page=2"}]

NoRequest == [method |-> "", groups |-> {}, full_path |-> ""]

NoResponse == [kind |-> "none", exc |-> "", url |-> "", field |-> "", next |-> ""]

\* dict.get(key, default)
DictGet(d, key, default) == IF key \in DOMAIN d THEN d[key] ELSE default

Returned(v) == [raised |-> "", value |-> v]

Raised(exc) == [raised |-> exc, value |-> FALSE]

NotCalled == [raised |-> "not called", value |-> FALSE]

\* mutant: the all-groups check written with any()
AllGroups_has_permission_any(self, req) ==
    IF ~self.declared THEN Returned(FALSE)
    ELSE LET entry == DictGet(self.mapping, req.method, List(<<>>))
         IN  IF entry.tag = "None" THEN Returned(FALSE)
             ELSE Returned(\E i \in 1..Len(entry.items) : entry.items[i] \in req.groups)

\* mutant: the hasattr guard left out, getattr's default {} taking its place
AllGroups_has_permission_nohasattr(self, req) ==
    LET entry == DictGet(self.mapping, req.method, List(<<>>))
    IN  IF entry.tag = "None" THEN Returned(FALSE)
        ELSE Returned(Range(entry.items) \subseteq req.groups)

\* MethodUserInAllGroups.has_permission
AllGroups_has_permission(self, req) ==
    IF ~self.declared THEN Returned(FALSE)
    ELSE LET entry == DictGet(self.mapping, req.method, List(<<>>))
         IN  IF entry.tag = "None" THEN Returned(FALSE)
             ELSE Returned(Range(entry.items) \subseteq req.groups)

\* mutant: the any-group check written with issubset
AnyGroup_has_permission_all(self, req) ==
    IF ~self.declared THEN Returned(FALSE)
    ELSE LET entry == DictGet(self.mapping, req.method, List(<<>>))
         IN  IF entry.tag = "None" THEN Raised("TypeError")
             ELSE Returned(Range(entry.items) \subseteq req.groups)

\* MethodUserInAnyGroup.has_permission; iterating None raises TypeError
AnyGroup_has_permission(self, req) ==
    IF ~self.declared THEN Returned(FALSE)
    ELSE LET entry == DictGet(self.mapping, req.method, List(<<>>))
         IN  IF entry.tag = "None" THEN Raised("TypeError")
             ELSE Returned(\E i \in 1..Len(entry.items) : entry.items[i] \in req.groups)

has_permission(cls, self, req) ==
    IF cls = "MethodUserInAllGroups" THEN AllGroups_has_permission(self, req)
    ELSE AnyGroup_has_permission(self, req)

\* django.contrib.auth.views.redirect_to_login(next, login_url, redirect_field_name)
redirect_to_login(next, login_url, field) ==
    [kind |-> "redirect", exc |-> "", url |-> login_url, field |-> field, next |-> next]

RaiseResponse(exc) ==
    [kind |-> "raise", exc |-> exc, url |-> "", field |-> "", next |-> ""]

SuperResponse == [kind |-> "super", exc |-> "", url |-> "", field |-> "", next |-> ""]

\* mutant: the redirect is built but not returned, and control falls through
PermissionBase_dispatch_noreturn(p, login_url, req) ==
    IF p.raised # "" THEN [resp |-> RaiseResponse(p.raised), super |-> 0]
    ELSE IF ~p.value
         THEN IF login_url # "" /\ REDIRECT_FIELD_NAME # ""
              THEN [resp |-> SuperResponse, super |-> 1]
              ELSE [resp |-> RaiseResponse("PermissionDenied"), super |-> 0]
         ELSE [resp |-> SuperResponse, super |-> 1]

\* MethodGroupPermissionBase.dispatch, given what self.has_permission gave:
\* the response, and how often super().dispatch ran
PermissionBase_dispatch(p, login_url, req) ==
    IF p.raised # "" THEN [resp |-> RaiseResponse(p.raised), super |-> 0]
    ELSE IF ~p.value
         THEN IF login_url # "" /\ REDIRECT_FIELD_NAME # ""
              THEN [resp |-> redirect_to_login(req.full_path, login_url,
                                               REDIRECT_FIELD_NAME),
                    super |-> 0]
              ELSE [resp |-> RaiseResponse("PermissionDenied"), super |-> 0]
         ELSE [resp |-> SuperResponse, super |-> 1]

PermInit ==
    /\ view_class \in {"MethodUserInAllGroups", "MethodUserInAnyGroup"}
    /\ permission_dict \in PermissionDicts
    /\ LOGIN_URL \in {"", "/accounts/login/"}
    /\ request = NoRequest
    /\ permission = NotCalled
    /\ response = NoResponse
    /\ super_dispatched = 0

\* The view handles one request at a time: dispatch runs to its end, the response
\* goes back to the framework, and only then is the next request dispatched.
DispatchTo(cls, req) ==
    /\ view_class = cls
    /\ response = NoResponse
    /\ LET p == has_permission(cls, permission_dict, req)
           out == PermissionBase_dispatch(p, LOGIN_URL, req)
       IN  /\ request' = req
           /\ permission' = p
           /\ response' = out.resp
           /\ super_dispatched' = out.super
    /\ UNCHANGED <<view_class, permission_dict, LOGIN_URL>>

\* a request reaches a view built on MethodUserInAllGroups
AllGroupsDispatch ==
    /\ \E req \in Requests : DispatchTo("MethodUserInAllGroups", req)
    /\ UNCHANGED <<filtersets, lookupVars, flatVars, groupVars, pageVars>>

\* a request reaches a view built on MethodUserInAnyGroup
AnyGroupDispatch ==
    /\ \E req \in Requests : DispatchTo("MethodUserInAnyGroup", req)
    /\ UNCHANGED <<filtersets, lookupVars, flatVars, groupVars, pageVars>>

\* the response is handed back; the request and its response are dropped
PermissionRequestDone ==
    /\ response # NoResponse
    /\ request' = NoRequest
    /\ permission' = NotCalled
    /\ response' = NoResponse
    /\ super_dispatched' = 0
    /\ UNCHANGED <<view_class, permission_dict, LOGIN_URL, filtersets, lookupVars,
                   flatVars, groupVars, pageVars>>

(***************************************************************************)
(* permissions.py: UserInAnyGroup, UserInAllGroups                         *)
(***************************************************************************)
GroupViews ==
    {[cls |-> c, declared |-> FALSE, permission_group_list |-> <<>>] :
        c \in {"UserInAnyGroup", "UserInAllGroups"}} \cup
    [cls : {"UserInAnyGroup", "UserInAllGroups"}, declared : {TRUE},
     permission_group_list : SeqsUpTo(Groups, MaxRequired)]

NoTest == [method |-> "", groups |-> {}, result |-> NotCalled]

\* mutant: any() where issubset belongs
UserInAllGroups_test_func_any(self, user_groups) ==
    IF ~self.declared THEN Raised("AttributeError")
    ELSE Returned(\E i \in 1..Len(self.permission_group_list) :
                      self.permission_group_list[i] \in user_groups)

\* UserInAnyGroup.test_func; a class without permission_group_list raises
UserInAnyGroup_test_func(self, user_groups) ==
    IF ~self.declared THEN Raised("AttributeError")
    ELSE Returned(\E i \in 1..Len(self.permission_group_list) :
                      self.permission_group_list[i] \in user_groups)

\* UserInAllGroups.test_func
UserInAllGroups_test_func(self, user_groups) ==
    IF ~self.declared THEN Raised("AttributeError")
    ELSE Returned(Range(self.permission_group_list) \subseteq user_groups)

GroupInit ==
    /\ group_view \in GroupViews
    /\ test_call = NoTest

\* a request reaches a view built on UserInAnyGroup: test_func(request.user)
UserInAnyGroupTest ==
    /\ group_view.cls = "UserInAnyGroup"
    /\ test_call = NoTest
    /\ \E req \in Requests :
          test_call' = [method |-> req.method, groups |-> req.groups,
                        result |-> UserInAnyGroup_test_func(group_view, req.groups)]
    /\ UNCHANGED <<group_view, filtersets, permVars, lookupVars, flatVars, pageVars>>

\* a request reaches a view built on UserInAllGroups: test_func(request.user)
UserInAllGroupsTest ==
    /\ group_view.cls = "UserInAllGroups"
    /\ test_call = NoTest
    /\ \E req \in Requests :
          test_call' = [method |-> req.method, groups |-> req.groups,
                        result |-> UserInAllGroups_test_func(group_view, req.groups)]
    /\ UNCHANGED <<group_view, filtersets, permVars, lookupVars, flatVars, pageVars>>

\* the request ends; its test result is dropped
GroupRequestDone ==
    /\ test_call # NoTest
    /\ test_call' = NoTest
    /\ UNCHANGED <<group_view, filtersets, permVars, lookupVars, flatVars, pageVars>>

(***************************************************************************)
(* viewset_mixins.py: InvalidLookupMixin.get_lookup_expression             *)
(***************************************************************************)
MaxFilters == 2      \* most filters one FilterSet class declares

RecursionLimit == 6  \* deepest nesting of calls before RecursionError

S(c) == <<c>>

DUNDER == <<"_", "_">>

FilterNames == {S("a"), S("b")}

ClassNames == {"F1", "F2", "F3"}

\* One declared filter: a plain Filter, or a RelatedFilter naming its filterset.
Filter(name) == [name |-> name, related |-> FALSE, filterset |-> ""]

RelatedFilter(name, cls) == [name |-> name, related |-> TRUE, filterset |-> cls]

\* FilterSet.get_filters(): an ordered dict, names unique, over the given targets.
Definitions(targets) ==
    {d \in SeqsUpTo({Filter(n) : n \in FilterNames} \cup
                    {RelatedFilter(n, c) : n \in FilterNames, c \in targets},
                    MaxFilters) :
        \A x, y \in 1..Len(d) : x # y => d[x].name # d[y].name}

FlatResult(list) == [raised |-> "", ret |-> list, arg |-> list]

FlatRaised == [raised |-> "RecursionError", ret |-> <<>>, arg |-> <<>>]

RECURSIVE get_lookup_expression(_, _, _, _, _)
RECURSIVE lookup_loop(_, _, _, _, _, _)

\* The for loop of get_lookup_expression from entry k on; acc is the list object
\* the name lookup_expression_list is bound to in this call.
lookup_loop(reg, fs_filter, k, related_field, acc, depth) ==
    IF k > Len(fs_filter) THEN FlatResult(acc)
    ELSE LET i == fs_filter[k].name
             j == fs_filter[k]
         IN  IF i = related_field
             THEN lookup_loop(reg, fs_filter, k + 1, related_field, acc, depth)
             ELSE IF j.related
             THEN LET sub == get_lookup_expression(reg, reg[j.filterset], i, acc,
                                                   depth + 1)
                  IN  IF sub.raised # "" THEN FlatRaised
                      ELSE lookup_loop(reg, fs_filter, k + 1, related_field,
                                       sub.arg, depth)
             ELSE LET expression == IF related_field # <<>>
                                    THEN related_field \o DUNDER \o i
                                    ELSE i
                  IN  lookup_loop(reg, fs_filter, k + 1, related_field,
                                  IF expression \in Range(acc) THEN acc
                                  ELSE Append(acc, expression),
                                  depth)

\* get_lookup_expression(fs_filter, related_field, lookup_expression_list).
\* None (no related field, no list) is <<>>: the code tests both for truth only,
\* and no filter is named ''.  ret is the returned list; arg is the content, after
\* the call, of the list object the caller passed: an empty list passed in is
\* replaced by a new list inside the call, so the caller's object stays empty.
get_lookup_expression(reg, fs_filter, related_field, lookup_expression_list, depth) ==
    IF depth > RecursionLimit THEN FlatRaised
    ELSE LET out == lookup_loop(reg, fs_filter, 1, related_field,
                                lookup_expression_list, depth)
         IN  IF out.raised # "" THEN FlatRaised
             ELSE [raised |-> "", ret |-> out.ret,
                   arg |-> IF lookup_expression_list = <<>> THEN <<>> ELSE out.ret]

\* the call dispatch makes: self.get_lookup_expression(filter_class.get_filters())
Flatten(reg, cls) == get_lookup_expression(reg, reg[cls], <<>>, <<>>, 1)

FlatRegistries ==
    {[c \in ClassNames |-> IF c = "F1" THEN d1 ELSE IF c = "F2" THEN d2 ELSE d3] :
        d1 \in Definitions({"F1", "F2"}),
        d2 \in Definitions({"F1", "F2", "F3"}),
        d3 \in Definitions({})}

NoFlat == [raised |-> "none", ret |-> <<>>, arg |-> <<>>]

FlatInit ==
    /\ filtersets \in FlatRegistries
    /\ fs_input = ""
    /\ fs_output = NoFlat

\* get_lookup_expression is applied to the filters of one declared class
FlattenCall ==
    /\ \E c \in ClassNames :
          /\ fs_input' = c
          /\ fs_output' = Flatten(filtersets, c)
    /\ UNCHANGED <<filtersets, permVars, lookupVars, groupVars, pageVars>>

(***************************************************************************)
(* viewset_mixins.py: InvalidLookupMixin.dispatch                          *)
(***************************************************************************)
MaxQueryLen == 2     \* most query keys of one request

HTTP_404_NOT_FOUND == 404

BANG == "!"

OFFSET == <<"o", "f", "f", "s", "e", "t">>

\* the default of getattr(settings, 'INVALID_LOOKUP_SKIP_LIST', [...])
DEFAULT_SKIP_LIST ==
    << OFFSET,
       <<"l", "i", "m", "i", "t">>,
       <<"f", "o", "r", "m", "a", "t">>,
       <<"f", "i", "e", "l", "d", "s">>,
       <<"o", "m", "i", "t">>,
       <<"e", "x", "p", "a", "n", "d">> >>

\* str.rstrip('!'): every trailing character of the set is removed
RECURSIVE rstrip(_, _)
rstrip(str, ch) ==
    IF Len(str) > 0 /\ str[Len(str)] = ch
    THEN rstrip(SubSeq(str, 1, Len(str) - 1), ch)
    ELSE str

\* mutant: the key is not split at '__'
split_first_whole(str, k) == str

\* str.split('__')[0]: the text before the first '__', the whole text if none
RECURSIVE split_first(_, _)
split_first(str, k) ==
    IF k + 1 > Len(str) THEN str
    ELSE IF str[k] = "_" /\ str[k + 1] = "_" THEN SubSeq(str, 1, k - 1)
    ELSE split_first(str, k + 1)

\* the pieces a message is made of: literal text, a formatted str, a formatted list
Lit(text) == [kind |-> "lit", text |-> text, str |-> <<>>, list |-> <<>>]

Str(value) == [kind |-> "str", text |-> "", str |-> value, list |-> <<>>]

Repr(list) == [kind |-> "list", text |-> "", str |-> <<>>, list |-> list]

JsonResponse(detail, status) ==
    [kind |-> "json", status |-> status, detail |-> detail, exc |-> ""]

LookupSuper == [kind |-> "super", status |-> 0, detail |-> <<>>, exc |-> ""]

LookupRaise(exc) == [kind |-> "raise", status |-> 0, detail |-> <<>>, exc |-> exc]

NoLookup == [kind |-> "none", status |-> 0, detail |-> <<>>, exc |-> ""]

\* mutant: the setting read without its default
SkipList_nodefault(setting) == setting.list

\* getattr(settings, 'INVALID_LOOKUP_SKIP_LIST', [...])
SkipList(setting) == IF setting.set THEN setting.list ELSE DEFAULT_SKIP_LIST

\* [i.name for i in self.model._meta.fields + self.model._meta.many_to_many]
ModelFieldNames(model) == model.fields \o model.many_to_many

\* mutant: filterset_fields consulted before filter_class
ValidateKey_filterset_first(reg, self, skip, key) ==
    LET field == rstrip(key, BANG)
    IN  IF field \in Range(SkipList(skip)) THEN NoLookup
        ELSE IF self.filterset_fields # <<>>
        THEN IF field \notin Range(self.filterset_fields)
             THEN JsonResponse(<<Str(field),
                                 Lit(" is not valid field. Filterable fields are: "),
                                 Repr(self.filterset_fields)>>,
                               HTTP_404_NOT_FOUND)
             ELSE NoLookup
        ELSE IF self.filter_class # ""
        THEN LET valid_fields == Flatten(reg, self.filter_class)
             IN  IF valid_fields.raised # "" THEN LookupRaise(valid_fields.raised)
                 ELSE IF field \notin Range(valid_fields.ret)
                 THEN JsonResponse(<<Lit("{} is not a valid filter field:")>>,
                                   HTTP_404_NOT_FOUND)
                 ELSE NoLookup
        ELSE IF self.filter_fields # <<>>
        THEN IF field \notin Range(self.filter_fields)
             THEN JsonResponse(<<Str(field),
                                 Lit(" is not valid field. Filterable fields are: "),
                                 Repr(self.filter_fields)>>,
                               HTTP_404_NOT_FOUND)
             ELSE NoLookup
        ELSE IF split_first(field, 1) \notin Range(ModelFieldNames(self.model))
             THEN JsonResponse(<<Str(field), Lit(" is not a valid field in "),
                                 Str(self.model.name)>>,
                               HTTP_404_NOT_FOUND)
             ELSE NoLookup

\* The body of dispatch's loop for one key: NoLookup when the loop goes on to the
\* next key, or the response returned (or the exception raised) at this key.
ValidateKey(reg, self, skip, key) ==
    LET field == rstrip(key, BANG)
    IN  IF field \in Range(SkipList(skip)) THEN NoLookup
        ELSE IF self.filter_class # ""
        THEN LET valid_fields == Flatten(reg, self.filter_class)
             IN  IF valid_fields.raised # "" THEN LookupRaise(valid_fields.raised)
                 ELSE IF field \notin Range(valid_fields.ret)
                 THEN JsonResponse(<<Lit("{} is not a valid filter field:")>>,
                                   HTTP_404_NOT_FOUND)
                 ELSE NoLookup
        ELSE IF self.filterset_fields # <<>>
        THEN IF field \notin Range(self.filterset_fields)
             THEN JsonResponse(<<Str(field),
                                 Lit(" is not valid field. Filterable fields are: "),
                                 Repr(self.filterset_fields)>>,
                               HTTP_404_NOT_FOUND)
             ELSE NoLookup
        ELSE IF self.filter_fields # <<>>
        THEN IF field \notin Range(self.filter_fields)
             THEN JsonResponse(<<Str(field),
                                 Lit(" is not valid field. Filterable fields are: "),
                                 Repr(self.filter_fields)>>,
                               HTTP_404_NOT_FOUND)
             ELSE NoLookup
        ELSE IF split_first(field, 1) \notin Range(ModelFieldNames(self.model))
             THEN JsonResponse(<<Str(field), Lit(" is not a valid field in "),
                                 Str(self.model.name)>>,
                               HTTP_404_NOT_FOUND)
             ELSE NoLookup

\* InvalidLookupMixin.dispatch from key k of the query on
RECURSIVE Lookup_dispatch(_, _, _, _, _)
Lookup_dispatch(reg, self, skip, query, k) ==
    IF k > Len(query) THEN LookupSuper
    ELSE LET r == ValidateKey(reg, self, skip, query[k])
         IN  IF r.kind = "none" THEN Lookup_dispatch(reg, self, skip, query, k + 1)
             ELSE r

Suffixes == {<<>>, <<BANG>>, <<BANG, BANG>>}

KeyBases == {S("a"), S("b"), S("a") \o DUNDER \o S("b"), OFFSET}

QueryKeys == {b \o x : b \in KeyBases, x \in Suffixes}

\* request.GET.dict(): the keys are distinct
Queries ==
    {q \in SeqsUpTo(QueryKeys, MaxQueryLen) :
        \A x, y \in 1..Len(q) : x # y => q[x] # q[y]}

Model(fields, m2m) == [name |-> S("M"), fields |-> fields, many_to_many |-> m2m]

Models == {Model(<<S("a")>>, <<>>), Model(<<>>, <<S("b")>>)}

Viewsets ==
    [filter_class : {"", "F1"},
     filterset_fields : {<<>>, <<S("a")>>},
     filter_fields : {<<>>, <<S("b")>>},
     model : Models]

SkipSettings == {[set |-> FALSE, list |-> <<>>], [set |-> TRUE, list |-> <<S("a")>>]}

PlainF2 == <<Filter(S("a")), Filter(S("b"))>>

LookupRegistries ==
    {[c \in ClassNames |-> IF c = "F1" THEN d1 ELSE IF c = "F2" THEN PlainF2 ELSE <<>>] :
        d1 \in Definitions({"F1", "F2"})}

NoRegistry == [c \in ClassNames |-> <<>>]

LookupInit ==
    /\ viewset \in Viewsets
    /\ IF viewset.filter_class = "" THEN filtersets = NoRegistry
       ELSE filtersets \in LookupRegistries
    /\ SKIP_SETTING \in SkipSettings
    /\ GET = <<>>
    /\ lookup_response = NoLookup
    /\ lookup_super = 0

\* a request reaches a viewset built on InvalidLookupMixin
LookupDispatch ==
    /\ lookup_response = NoLookup
    /\ \E query \in Queries :
          LET out == Lookup_dispatch(filtersets, viewset, SKIP_SETTING, query, 1)
          IN  /\ GET' = query
              /\ lookup_response' = out
              /\ lookup_super' = IF out.kind = "super" THEN 1 ELSE 0
    /\ UNCHANGED <<filtersets, viewset, SKIP_SETTING, permVars, flatVars, groupVars, pageVars>>

\* the response is handed back; the request and its response are dropped
LookupRequestDone ==
    /\ lookup_response # NoLookup
    /\ GET' = <<>>
    /\ lookup_response' = NoLookup
    /\ lookup_super' = 0
    /\ UNCHANGED <<filtersets, viewset, SKIP_SETTING, permVars, flatVars, groupVars, pageVars>>

(***************************************************************************)
(* views/gui.py: the list page views                                       *)
(***************************************************************************)
MaxRequests == 2     \* most GET requests the page views serve in one run

\* A Python value: a string or constant (id 0), or an object made while a
\* request is served, told apart by the number of that request.
Val(v) == [v |-> v, id |-> 0]

Obj(cls, n) == [v |-> cls, id |-> n]

PyNone == Val("None")

Truthy(x) == x # PyNone

ListBases ==
    {"HandyHelperListView", "HandyHelperListPlusCreateView",
     "HandyHelperBaseListPlusCreateView", "HandyHelperListPlusFilterView",
     "HandyHelperListPlusCreateAndFilterView"}

\* the dict objects made by dict() in the class bodies, named by their owner
CREATE_DICT == "HandyHelperListPlusCreateView.create_form"

FILTER_DICT == "HandyHelperListPlusFilterView.filter_form"

BOTH_CREATE_DICT == "HandyHelperListPlusCreateAndFilterView.create_form"

BOTH_FILTER_DICT == "HandyHelperListPlusCreateAndFilterView.filter_form"

ClassDicts == {CREATE_DICT, FILTER_DICT, BOTH_CREATE_DICT, BOTH_FILTER_DICT}

EmptyDict == <<>>

\* d[key] = value
SetItem(d, key, value) ==
    [k \in DOMAIN d \cup {key} |-> IF k = key THEN value ELSE d[k]]

\* A view class of the application: its base, and the class parameters it sets;
\* the parameters it does not set keep the defaults of the base.
PageViewClasses ==
    [base : ListBases,
     title : {Val("Projects")},
     page_description : {Val("my cool projects")},
     create_form_obj : {PyNone, Val("ProjectForm")},
     create_form_title : {PyNone, Val("Add Project")},
     filter_form_obj : {PyNone, Val("FilterForm")}]

ViewNames == {"V1", "V2"}

\* dict(base_template=..., queryset=..., title=..., ...): the part all get()s share
BaseContext(self, n) ==
    [k \in {"base_template", "queryset", "title", "subtitle", "table", "modals",
            "args", "kwargs"} |->
        CASE k = "base_template" -> Val("handyhelpers/handyhelpers_base.htm")
          [] k = "queryset" -> Obj("QuerySet", n)
          [] k = "title" -> self.title
          [] k = "subtitle" -> self.page_description
          [] OTHER -> PyNone]

\* the create_form items HandyHelperListPlusCreateView.get assigns
CreateItems(self, n, d) ==
    LET d1 == SetItem(d, "form", Obj(self.create_form_obj.v, n))
        d2 == SetItem(d1, "form_id", PyNone)
        d3 == SetItem(d2, "action", Val("Add"))
        d4 == SetItem(d3, "action_url", PyNone)
        d5 == SetItem(d4, "title", self.create_form_title)
        d6 == SetItem(d5, "modal_name", PyNone)
        d7 == SetItem(d6, "link_title", PyNone)
    IN  SetItem(d7, "tool_tip", PyNone)

\* the create_form items HandyHelperListPlusCreateAndFilterView.get assigns
CreateItemsNoId(self, n, d) ==
    LET d1 == SetItem(d, "form", Obj(self.create_form_obj.v, n))
        d3 == SetItem(d1, "action", Val("Add"))
        d4 == SetItem(d3, "action_url", PyNone)
        d5 == SetItem(d4, "title", self.create_form_title)
        d6 == SetItem(d5, "modal_name", PyNone)
        d7 == SetItem(d6, "link_title", PyNone)
    IN  SetItem(d7, "tool_tip", PyNone)

\* the filter_form items HandyHelperListPlusCreateAndFilterView.get assigns
FilterItemsNoId(self, n, d) ==
    LET d1 == SetItem(d, "form", Obj(self.filter_form_obj.v, n))
        d3 == SetItem(d1, "action", Val("Filter"))
        d4 == SetItem(d3, "action_url", Val("/handyhelpers/filter_list_view"))
        d5 == SetItem(d4, "title", PyNone)
        d6 == SetItem(d5, "modal_name", PyNone)
        d7 == SetItem(d6, "link_title", PyNone)
        d8 == SetItem(d7, "tool_tip", PyNone)
    IN  SetItem(d8, "undo", Val("True"))

\* the filter_form items HandyHelperListPlusFilterView.get assigns
FilterItems(self, n, d) == SetItem(FilterItemsNoId(self, n, d), "form_id", PyNone)

\* HandyHelperListView.get: the context rendered, and the class dicts after it
ListView_get(self, n, dicts) == [context |-> BaseContext(self, n), dicts |-> dicts]

\* HandyHelperListPlusCreateView.get; context['create_form'] is the class's dict
ListPlusCreateView_get(self, n, dicts) ==
    IF Truthy(self.create_form_obj)
    THEN [context |-> SetItem(BaseContext(self, n), "create_form", Val(CREATE_DICT)),
          dicts |-> [dicts EXCEPT ![CREATE_DICT] = CreateItems(self, n, @)]]
    ELSE [context |-> BaseContext(self, n), dicts |-> dicts]

\* HandyHelperListPlusFilterView.get
ListPlusFilterView_get(self, n, dicts) ==
    IF Truthy(self.filter_form_obj)
    THEN [context |-> SetItem(BaseContext(self, n), "filter_form", Val(FILTER_DICT)),
          dicts |-> [dicts EXCEPT ![FILTER_DICT] = FilterItems(self, n, @)]]
    ELSE [context |-> BaseContext(self, n), dicts |-> dicts]

\* HandyHelperListPlusCreateAndFilterView.get
ListPlusCreateAndFilterView_get(self, n, dicts) ==
    LET c1 == IF Truthy(self.create_form_obj)
              THEN [context |-> SetItem(BaseContext(self, n), "create_form",
                                        Val(BOTH_CREATE_DICT)),
                    dicts |-> [dicts EXCEPT ![BOTH_CREATE_DICT] =
                                                CreateItemsNoId(self, n, @)]]
              ELSE [context |-> BaseContext(self, n), dicts |-> dicts]
    IN  IF Truthy(self.filter_form_obj)
        THEN [context |-> SetItem(c1.context, "filter_form", Val(BOTH_FILTER_DICT)),
              dicts |-> [c1.dicts EXCEPT ![BOTH_FILTER_DICT] =
                                             FilterItemsNoId(self, n, @)]]
        ELSE c1

\* the class whose get() a view class inherits
GetOf(base) ==
    IF base = "HandyHelperBaseListPlusCreateView" THEN "HandyHelperListView" ELSE base

PageInit ==
    /\ page_views \in [ViewNames -> PageViewClasses]
    /\ class_dicts = [d \in ClassDicts |-> EmptyDict]
    /\ rendered = <<>>

\* render(request, self.template_name, context): the template reads the
\* context, and through it the dicts the context refers to, as they are now
Render(view, out) ==
    /\ class_dicts' = out.dicts
    /\ rendered' = Append(rendered, [view |-> view, context |-> out.context,
                                      seen |-> out.dicts])
    /\ UNCHANGED <<page_views, filtersets, permVars, lookupVars, flatVars, groupVars>>

\* GET of a view class whose get is HandyHelperListView.get
ListViewGet ==
    /\ Len(rendered) < MaxRequests
    /\ \E view \in ViewNames :
          /\ GetOf(page_views[view].base) = "HandyHelperListView"
          /\ Render(view, ListView_get(page_views[view], Len(rendered) + 1, class_dicts))

\* GET of a view class built on HandyHelperListPlusCreateView
ListPlusCreateViewGet ==
    /\ Len(rendered) < MaxRequests
    /\ \E view \in ViewNames :
          /\ GetOf(page_views[view].base) = "HandyHelperListPlusCreateView"
          /\ Render(view, ListPlusCreateView_get(page_views[view], Len(rendered) + 1,
                                                 class_dicts))

\* GET of a view class built on HandyHelperListPlusFilterView
ListPlusFilterViewGet ==
    /\ Len(rendered) < MaxRequests
    /\ \E view \in ViewNames :
          /\ GetOf(page_views[view].base) = "HandyHelperListPlusFilterView"
          /\ Render(view, ListPlusFilterView_get(page_views[view], Len(rendered) + 1,
                                                 class_dicts))

\* GET of a view class built on HandyHelperListPlusCreateAndFilterView
ListPlusCreateAndFilterViewGet ==
    /\ Len(rendered) < MaxRequests
    /\ \E view \in ViewNames :
          /\ GetOf(page_views[view].base) = "HandyHelperListPlusCreateAndFilterView"
          /\ Render(view, ListPlusCreateAndFilterView_get(page_views[view],
                                                          Len(rendered) + 1, class_dicts))

(***************************************************************************)
(* Specifications                                                          *)
(***************************************************************************)
PermIdle ==
    /\ view_class = "MethodUserInAllGroups"
    /\ permission_dict = [declared |-> FALSE, mapping |-> <<>>]
    /\ LOGIN_URL = ""
    /\ request = NoRequest
    /\ permission = NotCalled
    /\ response = NoResponse
    /\ super_dispatched = 0

LookupIdle ==
    /\ viewset = [filter_class |-> "", filterset_fields |-> <<>>,
                  filter_fields |-> <<>>, model |-> Model(<<>>, <<>>)]
    /\ SKIP_SETTING = [set |-> FALSE, list |-> <<>>]
    /\ GET = <<>>
    /\ lookup_response = NoLookup
    /\ lookup_super = 0

FlatIdle ==
    /\ fs_input = ""
    /\ fs_output = NoFlat

GroupIdle ==
    /\ group_view = [cls |-> "UserInAnyGroup", declared |-> FALSE,
                     permission_group_list |-> <<>>]
    /\ test_call = NoTest

PageIdle ==
    /\ page_views = <<>>
    /\ class_dicts = <<>>
    /\ rendered = <<>>

\* the permission mixins
Init == PermInit /\ filtersets = NoRegistry /\ LookupIdle /\ FlatIdle /\ GroupIdle /\ PageIdle

Next == AllGroupsDispatch \/ AnyGroupDispatch \/ PermissionRequestDone

Spec == Init /\ [][Next]_vars

\* get_lookup_expression as a function of the declared classes
InitFlat == PermIdle /\ LookupIdle /\ FlatInit /\ GroupIdle /\ PageIdle

NextFlat == FlattenCall

SpecFlat == InitFlat /\ [][NextFlat]_vars

\* the query-parameter validator
InitLookup == PermIdle /\ LookupInit /\ FlatIdle /\ GroupIdle /\ PageIdle

NextLookup == LookupDispatch \/ LookupRequestDone

SpecLookup == InitLookup /\ [][NextLookup]_vars

\* the method-independent group mixins
InitGroups ==
    PermIdle /\ filtersets = NoRegistry /\ LookupIdle /\ FlatIdle /\ GroupInit /\ PageIdle

NextGroups == UserInAnyGroupTest \/ UserInAllGroupsTest \/ GroupRequestDone

SpecGroups == InitGroups /\ [][NextGroups]_vars

\* the list page views
InitPages ==
    PermIdle /\ filtersets = NoRegistry /\ LookupIdle /\ FlatIdle /\ GroupIdle /\ PageInit

NextPages ==
    \/ ListViewGet
    \/ ListPlusCreateViewGet
    \/ ListPlusFilterViewGet
    \/ ListPlusCreateAndFilterViewGet

SpecPages == InitPages /\ [][NextPages]_vars

(***************************************************************************)
(* Properties of the permission mixins (specification Spec)                *)
(***************************************************************************)
Handled == response # NoResponse

Declared == permission_dict.declared

HasEntry == Declared /\ request.method \in DOMAIN permission_dict.mapping

\* the permission_dict entry of the request's method, when there is one
Entry == permission_dict.mapping[request.method]

ListEntry == HasEntry /\ Entry.tag = "list"

Admitted == permission = Returned(TRUE)

Denied == permission = Returned(FALSE)

\* C1: in MethodUserInAllGroups, for a method whose permission_dict entry is a
\* list R (R = [] included), has_permission admits exactly when every name of R
\* is one of the user's groups; R = [] is admitted whatever the groups are.
C1_AllGroupsSubset ==
    (Handled /\ view_class = "MethodUserInAllGroups" /\ ListEntry)
        => /\ permission.raised = ""
           /\ permission.value <=> (\A i \in 1..Len(Entry.items) :
                                        Entry.items[i] \in request.groups)
           /\ Entry.items = <<>> => Admitted

C1_Witness ==
    /\ Handled /\ view_class = "MethodUserInAllGroups" /\ ListEntry
    /\ Entry.items = <<>>
    /\ request.groups = {}
    /\ Admitted

\* C2: in MethodUserInAnyGroup, for a method whose permission_dict entry is a
\* list R, has_permission admits exactly when some name of R is one of the
\* user's groups; R = [] and a method without an entry are denied.
C2_AnyGroupIntersects ==
    /\ (Handled /\ view_class = "MethodUserInAnyGroup" /\ ListEntry)
          => /\ permission.raised = ""
             /\ permission.value <=> (Range(Entry.items) \cap request.groups # {})
             /\ Entry.items = <<>> => Denied
    /\ (Handled /\ view_class = "MethodUserInAnyGroup" /\ Declared /\ ~HasEntry)
          => Denied

C2_Witness ==
    /\ Handled /\ view_class = "MethodUserInAnyGroup" /\ ListEntry
    /\ Entry.items = <<"site_operators", "site_admins">>
    /\ request.groups = {"site_admins"}
    /\ Admitted

\* C3: in MethodUserInAllGroups, with a permission_dict declared, a method that
\* has no entry, or whose entry is None, is denied whatever the user's groups.
C3_AllGroupsMissingEntryDenied ==
    (Handled /\ view_class = "MethodUserInAllGroups" /\ Declared
             /\ (~HasEntry \/ Entry.tag = "None"))
        => Denied /\ super_dispatched = 0

\* C4: a view that declares no permission_dict denies every request, in both
\* mixins, whatever the method and the user's groups.
C4_NoPermissionDictDenied ==
    (Handled /\ ~Declared) => Denied /\ super_dispatched = 0

C4_Witness ==
    /\ Handled /\ ~Declared
    /\ view_class = "MethodUserInAllGroups"
    /\ request.groups = Groups
    /\ Denied
    /\ super_dispatched = 0

\* C5: dispatch calls the next stage's dispatch exactly when has_permission
\* admits; a denied request gets a redirect to LOGIN_URL carrying the request's
\* full path when LOGIN_URL is set, and PermissionDenied is raised when it is
\* not; the next stage is not called in either case.
C5_DispatchGate ==
    Handled =>
        /\ super_dispatched = 1 <=> Admitted
        /\ super_dispatched \in {0, 1}
        /\ Admitted => response = SuperResponse
        /\ Denied =>
              /\ super_dispatched = 0
              /\ IF LOGIN_URL # ""
                 THEN /\ response.kind = "redirect"
                      /\ response.url = LOGIN_URL
                      /\ response.next = request.full_path
                 ELSE /\ response.kind = "raise"
                      /\ response.exc = "PermissionDenied"

C5_Witness ==
    /\ Handled /\ Denied
    /\ LOGIN_URL = "/accounts/login/"
    /\ response.kind = "redirect"
    /\ response.next = "/items/?page=2"
    /\ super_dispatched = 0

(***************************************************************************)
(* Properties of get_lookup_expression (specification SpecFlat)            *)
(***************************************************************************)
Flattened == fs_output # NoFlat

PlainOnly(cls) == \A k \in 1..Len(filtersets[cls]) : ~filtersets[cls][k].related

\* plain filters, and related filters over definitions of plain filters only
OneLevel(cls) ==
    \A k \in 1..Len(filtersets[cls]) :
        filtersets[cls][k].related => PlainOnly(filtersets[cls][k].filterset)

Plains(cls) == {e \in Range(filtersets[cls]) : ~e.related}

Relateds(cls) == {e \in Range(filtersets[cls]) : e.related}

\* the names of the plain filters, and a__b for each related a and nested plain b
OneLevelExpressions(cls) ==
    {e.name : e \in Plains(cls)} \cup
    UNION {{a.name \o DUNDER \o b.name :
               b \in {x \in Range(filtersets[a.filterset]) : x.name # a.name}} :
           a \in Relateds(cls)}

\* C6: for a definition of plain filters and related filters over definitions
\* of plain filters, get_lookup_expression returns exactly the plain top-level
\* names and a__b for every related a and nested plain b (b # a), in whatever
\* order the entries come; for {a: RelatedFilter({b: Filter()})} exactly {a__b}.
C6_FlattenOneLevel ==
    (Flattened /\ OneLevel(fs_input))
        => /\ fs_output.raised = ""
           /\ Range(fs_output.ret) = OneLevelExpressions(fs_input)

\* every related filter of the definition refers back to the definition itself
SelfReferential(cls) ==
    /\ Relateds(cls) # {}
    /\ \A e \in Relateds(cls) : e.filterset = cls

\* C11: for a definition whose related filters refer back to the definition
\* that declares them, one such related filter or several, flattening
\* terminates and returns a list.
C11_SelfReferenceTerminates ==
    (Flattened /\ SelfReferential(fs_input)) => fs_output.raised = ""

\* x -> y -> z: related x of cls, related y (y # x) of x's definition, plain z
\* (z # y) of y's definition
Chains(cls) ==
    {<<x, y, z>> \in Relateds(cls) \X Range(filtersets["F2"]) \X Range(filtersets["F3"]) :
        /\ x.filterset = "F2"
        /\ y.related /\ y.filterset = "F3" /\ y.name # x.name
        /\ ~z.related /\ z.name # y.name}

\* C16: with related a over a definition holding related b over a definition
\* holding plain c, the expressions of the inner recursion are prefixed with
\* the outer name: the result contains a__b__c, and does not contain b__c
\* (which no filter of the top-level definition stands for).
C16_NestedPrefix ==
    (Flattened /\ fs_input = "F1" /\ fs_output.raised = "") =>
        \A c \in Chains("F1") :
            /\ c[1].name \o DUNDER \o c[2].name \o DUNDER \o c[3].name
                   \in Range(fs_output.ret)
            /\ (\A e \in Relateds("F1") : e.name # c[2].name)
                  => c[2].name \o DUNDER \o c[3].name \notin Range(fs_output.ret)

(***************************************************************************)
(* Properties of InvalidLookupMixin.dispatch (specification SpecLookup)    *)
(***************************************************************************)
LookupHandled == lookup_response # NoLookup

\* the source the precedence order selects
Selected ==
    IF viewset.filter_class # "" THEN "filter_class"
    ELSE IF viewset.filterset_fields # <<>> THEN "filterset_fields"
    ELSE IF viewset.filter_fields # <<>> THEN "filter_fields"
    ELSE "model"

Dunders(str) == {k \in 1..(Len(str) - 1) : str[k] = "_" /\ str[k + 1] = "_"}

\* the part of a key before its first '__'
BeforeDunder(str) ==
    IF Dunders(str) = {} THEN str
    ELSE SubSeq(str, 1, (CHOOSE k \in Dunders(str) : \A x \in Dunders(str) : k <= x) - 1)

InFilterClass(field) ==
    LET flat == Flatten(filtersets, viewset.filter_class)
    IN  flat.raised = "" /\ field \in Range(flat.ret)

InSource(source, field) ==
    CASE source = "filter_class" -> InFilterClass(field)
      [] source = "filterset_fields" -> field \in Range(viewset.filterset_fields)
      [] source = "filter_fields" -> field \in Range(viewset.filter_fields)
      [] source = "model" ->
            BeforeDunder(field) \in
                Range(viewset.model.fields) \cup Range(viewset.model.many_to_many)

InSkipList(field) == field \in Range(SkipList(SKIP_SETTING))

\* the key as dispatch validates it
Field(k) == rstrip(GET[k], BANG)

Unrecognized == {k \in 1..Len(GET) : ~InSkipList(Field(k)) /\ ~InSource(Selected, Field(k))}

FirstUnrecognized == CHOOSE k \in Unrecognized : \A x \in Unrecognized : k <= x

\* C7: dispatch hands the request to the next stage exactly when every query
\* key (after '!' stripping, allow-listed keys skipped) is recognized by the
\* selected source; otherwise it returns a JSON response with status 404 for
\* the first unrecognized key, and the next stage is not called.
C7_PassOr404 ==
    LookupHandled =>
        IF Unrecognized = {}
        THEN lookup_super = 1 /\ lookup_response = LookupSuper
        ELSE /\ lookup_super = 0
             /\ lookup_response.kind = "json"
             /\ lookup_response.status = 404
             /\ lookup_response =
                    ValidateKey(filtersets, viewset, SKIP_SETTING, GET[FirstUnrecognized])

\* C8: every query key is validated against one source only, the first
\* configured of filter_class, filterset_fields, filter_fields, model fields;
\* with filter_class and filterset_fields both declared, a key that is only in
\* filterset_fields is rejected and a key that is only among the flattened
\* expressions of filter_class passes.
C8_Precedence ==
    LookupHandled =>
        /\ lookup_super = 1 <=> Unrecognized = {}
        /\ (viewset.filter_class # "" /\ viewset.filterset_fields # <<>> /\ Len(GET) = 1
               /\ ~InSkipList(Field(1)))
              => /\ (InSource("filterset_fields", Field(1))
                        /\ ~InSource("filter_class", Field(1))) => lookup_super = 0
                 /\ (InSource("filter_class", Field(1))
                        /\ ~InSource("filterset_fields", Field(1))) => lookup_super = 1

C8_Witness ==
    /\ LookupHandled
    /\ viewset.filter_class = "F1"
    /\ filtersets["F1"] = <<Filter(S("b"))>>
    /\ viewset.filterset_fields = <<S("a")>>
    /\ ~SKIP_SETTING.set
    /\ GET = <<S("a")>>
    /\ lookup_response.kind = "json"
    /\ lookup_super = 0

\* one trailing '!' removed, if there is one
StripOne(key) ==
    IF Len(key) > 0 /\ key[Len(key)] = BANG THEN SubSeq(key, 1, Len(key) - 1) ELSE key

\* C9: before validation at most one trailing '!' is stripped from a query
\* key: the key is validated as the key without its last '!', so 'a!' passes
\* when 'a' is in filterset_fields, and no more than that one character goes.
C9_StripSingleBang ==
    (LookupHandled /\ Len(GET) = 1) =>
        (lookup_super = 1 <=>
            (InSkipList(StripOne(GET[1])) \/ InSource(Selected, StripOne(GET[1]))))

NamesField(detail, field) ==
    \E x \in 1..Len(detail) : detail[x].kind = "str" /\ detail[x].str = field

ListsFields(detail, fields) ==
    \E x \in 1..Len(detail) : detail[x].kind = "list" /\ detail[x].list = fields

\* C10: every rejection response, whichever of the four sources rejected,
\* has a detail message that contains the offending query key; for
\* filterset_fields and filter_fields the message also lists the valid fields.
C10_DetailNamesKey ==
    (LookupHandled /\ lookup_response.kind = "json") =>
        /\ \E k \in 1..Len(GET) :
              \/ NamesField(lookup_response.detail, Field(k))
              \/ NamesField(lookup_response.detail, GET[k])
        /\ Selected = "filterset_fields"
              => ListsFields(lookup_response.detail, viewset.filterset_fields)
        /\ Selected = "filter_fields"
              => ListsFields(lookup_response.detail, viewset.filter_fields)

\* C13: with the default allow-list (offset, limit, format, fields, omit,
\* expand) a query key whose name is in the allow-list never causes a
\* rejection, whatever source is configured and whatever it contains: a request
\* of allow-listed keys only goes on to the next stage, and a response other
\* than that is the one dispatch gives for a key that is not allow-listed.
C13_AllowListNeverRejects ==
    (LookupHandled /\ ~SKIP_SETTING.set) =>
        /\ (\A k \in 1..Len(GET) : Field(k) \in Range(DEFAULT_SKIP_LIST))
              => lookup_super = 1
        /\ lookup_super = 0
              => \E k \in 1..Len(GET) :
                    /\ Field(k) \notin Range(DEFAULT_SKIP_LIST)
                    /\ lookup_response =
                           ValidateKey(filtersets, viewset, SKIP_SETTING, GET[k])

C13_Witness ==
    /\ LookupHandled /\ ~SKIP_SETTING.set
    /\ viewset.filter_class = "F1"
    /\ filtersets["F1"] = <<>>
    /\ GET = <<OFFSET>>
    /\ lookup_super = 1

ModelNames == Range(viewset.model.fields) \cup Range(viewset.model.many_to_many)

ModelRejected ==
    {k \in 1..Len(GET) : ~InSkipList(Field(k)) /\ BeforeDunder(Field(k)) \notin ModelNames}

\* C14: with no filter_class, filterset_fields or filter_fields, a query key
\* (as dispatch validates it) passes exactly when its part before the first
\* '__' names a field or many-to-many relation of the model; a__b passes when
\* the model has field a; a key without such a field is answered with status
\* 404 and a message naming the key and the model.
C14_ModelSource ==
    (LookupHandled /\ Selected = "model") =>
        /\ lookup_super = 1 <=> ModelRejected = {}
        /\ ModelRejected # {} =>
              LET k == CHOOSE x \in ModelRejected : \A y \in ModelRejected : x <= y
              IN  /\ lookup_response.kind = "json"
                  /\ lookup_response.status = 404
                  /\ NamesField(lookup_response.detail, Field(k))
                  /\ NamesField(lookup_response.detail, viewset.model.name)

C14_Witness ==
    /\ LookupHandled /\ Selected = "model"
    /\ viewset.model = Model(<<S("a")>>, <<>>)
    /\ ~SKIP_SETTING.set
    /\ GET = <<S("a") \o DUNDER \o S("b"), S("b")>>
    /\ lookup_response.kind = "json"
    /\ lookup_response.status = 404
    /\ NamesField(lookup_response.detail, S("b"))

(***************************************************************************)
(* Properties of the group mixins (specification SpecGroups)               *)
(***************************************************************************)
Tested == test_call # NoTest

\* C15: UserInAnyGroup.test_func admits exactly when the user's groups hold at
\* least one name of permission_group_list, UserInAllGroups.test_func exactly
\* when they hold every name of it, for every user and declared list; the
\* request's method has no part in the result.
C15_GroupListTest ==
    (Tested /\ group_view.declared) =>
        /\ test_call.result.raised = ""
        /\ group_view.cls = "UserInAnyGroup" =>
              (test_call.result.value <=>
                  Range(group_view.permission_group_list) \cap test_call.groups # {})
        /\ group_view.cls = "UserInAllGroups" =>
              (test_call.result.value <=>
                  \A g \in Range(group_view.permission_group_list) : g \in test_call.groups)

C15_Witness ==
    /\ Tested /\ group_view.declared
    /\ group_view.cls = "UserInAllGroups"
    /\ group_view.permission_group_list = <<"site_operators", "site_admins">>
    /\ test_call.groups = {"site_admins"}
    /\ test_call.method = "POST"
    /\ test_call.result = Returned(FALSE)

(***************************************************************************)
(* Properties of the list page views (specification SpecPages)             *)
(***************************************************************************)
\* the dict objects a rendered context refers to
DictsOf(context) ==
    {context[k].v : k \in {"create_form", "filter_form"} \cap DOMAIN context}

\* C12: no mutable state is shared across requests: after any sequence of GET
\* requests to the generic page views every class-level attribute, the
\* create_form and filter_form dicts included, has the value it had at class
\* definition, and no context built for one request holds an object that a
\* later request modifies.
C12_NoSharedMutableState ==
    /\ \A d \in DOMAIN class_dicts : class_dicts[d] = EmptyDict
    /\ \A i \in 1..Len(rendered) :
          \A d \in DictsOf(rendered[i].context) : class_dicts[d] = rendered[i].seen[d]

\* C17: the legacy class HandyHelperBaseListPlusCreateView builds on GET the
\* context HandyHelperListPlusCreateView builds for the same configuration; with
\* create_form_obj configured the context has a 'create_form' entry.
C17_LegacyCreateContext ==
    \A i \in 1..Len(rendered) :
        LET self == page_views[rendered[i].view]
        IN  self.base = "HandyHelperBaseListPlusCreateView" =>
                /\ rendered[i].context =
                       ListPlusCreateView_get(self, i, class_dicts).context
                /\ Truthy(self.create_form_obj)
                      => "create_form" \in DOMAIN rendered[i].context

====
